---- MODULE Spec2Model ----
(***************************************************************************)
(* Scheduling and notification delivery of the missions bot:               *)
(*   core/scheduler.py               NotificationScheduler                 *)
(*   services/notification_service.py NotificationService                  *)
(*   services/user_service.py        UserService                           *)
(*   handlers/admin_analytics.py     cb_admin_reset_charges                *)
(*                                                                         *)
(* Time is counted in minutes since the epoch of the model; a datetime is  *)
(* a natural number, a missing datetime (SQL NULL / Python None) is NoTime.*)
(* The Boolean column Notification.sent is nullable, so it has the three   *)
(* values "False", "True" and "None".                                      *)
(***************************************************************************)
EXTENDS Integers, Sequences, FiniteSets, TLC

\* ---------------------------------------------------------------- bounds
MaxNotifs   == 2    \* rows the notification table can hold in the model
MaxMinute   == 1    \* the clock runs over minutes 0..MaxMinute of a day
MaxDay      == 1    \* the clock runs over days 0..MaxDay
MaxUsers    == 2    \* rows of the users table
MaxJitter   == 1    \* minutes by which a sleep and its iteration may overrun
MaxLen      == 2    \* characters of a title or of a message
MaxDeliveries == 2  \* copies of one notification the chat is followed for
MaxMissions == 2    \* rows of the missions table

\* ------------------------------------------------------ program constants
MinutesPerDay    == 1440   \* timedelta(days=1) in minutes
MaxCharges       == 3      \* charges = 3 on every reset
PointsPerLevel   == 100    \* level = points // 100 + 1
DefaultRetention == 7      \* cleanup_old_notifications(days=7)
TestDelay        == 1      \* delay_minutes=1 of weekly_stats / test / welcome
WindowMinutes    == 5      \* now.hour == 0 and now.minute < 5
DebounceSleep    == 5      \* asyncio.sleep(300) after a firing
MinuteSleep      == 1      \* asyncio.sleep(60)
HourSleep        == 60     \* asyncio.sleep(3600)
SecondsPerMinute == 60     \* datetime.minute
MinutesPerHour   == 60     \* datetime.hour
HoursPerDay      == 24     \* datetime.hour
DaysPerWeek      == 7      \* now.weekday() == 0 once in seven days

NoTime == -1

VARIABLES
    now,                \* datetime.utcnow(), in minutes
    running,            \* NotificationScheduler.running
    notifications,      \* table notifications: sequence indexed by id
    dpc,                \* position of run_notification_sender
    due_notifications,  \* run_notification_sender's local due_notifications (ids)
    outcome,            \* per id: what the current iteration logged for it
    current,            \* id whose send succeeded and whose mark is pending, or 0
    attempted,          \* ids bot.send_message has been called for so far
    users,              \* table users: user -> [charges, last_charge_reset]
    bulkResets,         \* consecutive bulk resets of today with no write in between
    reset_log,          \* what the last _reset_charges_for_all logged
    loaded,             \* the User object of the request handler in flight
    settings,           \* table user_notification_settings: user -> row
    theme_weeks,        \* table theme_weeks: sequence indexed by id
    rpc,                \* position of each time-windowed runner
    wake,               \* per runner: the time its current sleep ends
    boot,               \* the time the scheduler was constructed
    last_fired,         \* per runner: when its unit-of-work last ran
    fired_today,        \* per runner: runs of the unit-of-work on that day
    work_log,           \* what the last unit-of-work logged
    spc,                \* position of start_scheduler
    sender,             \* the scheduler's own Bot session
    arg,                \* the argument a function is evaluated on
    result,             \* the value it returned
    mpc,                \* position of main()
    bot_session,        \* the session of the Bot that main() creates
    state,              \* the data of the user's conversation (FSMContext)
    delivered,          \* how many times the chat received each notification
    handlers,           \* the 'mission_done' callbacks in flight
    debited             \* charges taken from the store for the current mission

vars == <<now, running, notifications, dpc, due_notifications, outcome,
          current, attempted, users, bulkResets, reset_log, loaded,
          settings, theme_weeks, rpc, wake, boot, last_fired, fired_today,
          work_log, spc, sender, arg, result, mpc, bot_session, state,
          delivered, handlers, debited>>

notifVars  == <<running, notifications, dpc, due_notifications, outcome,
                current, attempted>>
chargeVars == <<users, bulkResets, reset_log, loaded>>

prefVars   == <<settings, theme_weeks>>
appVars    == <<mpc, bot_session, state, delivered, handlers, debited>>
lifeVars   == <<spc, sender, appVars>>
callVars   == <<arg, result>>
runnerVars == <<rpc, wake, boot, lifeVars, callVars, last_fired, fired_today,
                work_log>>

\* run_daily_tasks, run_weekly_tasks, run_theme_week_switch,
\* run_cleanup_tasks
Runners == {"daily", "weekly", "theme", "cleanup"}

\* no request handler is in flight
NoHandler == [user |-> 0, charges |-> 0, last_charge_reset |-> 0]

NotifIds == 1..MaxNotifs
Users    == 1..MaxUsers

\* datetime.date(): the UTC calendar day of a datetime (None for a missing one)
Day(t) == IF t = NoTime THEN NoTime ELSE t \div MinutesPerDay

\* ------------------------------------------------------------------ Init
\* UserNotificationSettings(user_id=...): every flag defaults to True; rows
\* counts the rows of the table that carry the user's id
DefaultSettings ==
    [exists |-> TRUE, rows |-> 1, enabled |-> TRUE, daily_reminders |-> TRUE,
     weekly_stats |-> TRUE, mission_notifications |-> TRUE,
     pair_notifications |-> TRUE]

\* the user has no settings row yet
NoSettings == [DefaultSettings EXCEPT !.exists = FALSE, !.rows = 0]

\* no function has been called
NoCall == << >>

\* FSMContext after state.clear(): data.get("current_mission_id") is None
\* (0 here) and data.get("charge_consumed", False) is False
NoData == [current_mission_id |-> 0, charge_consumed |-> FALSE]

\* the callbacks of one chat that are handled at the same time (every update
\* is handled in a task of its own)
Handlers == {"first", "second"}

\* a callback that is not being handled
Idle == [pc |-> "idle", mission_id |-> 0, charge_consumed |-> FALSE,
         old |-> [charges |-> 0, last_charge_reset |-> 0],
         new |-> [charges |-> 0, last_charge_reset |-> 0]]

\* nothing logged by a unit-of-work
NoWork == [kind |-> "none", raised |-> {}, week |-> 0]

\* everything but the clock, the settings and the theme weeks
InitState ==
    /\ running = FALSE
    /\ notifications = << >>
    /\ dpc = "init"
    /\ due_notifications = {}
    /\ outcome = [i \in NotifIds |-> "none"]
    /\ current = 0
    /\ attempted = {}
    /\ users = [u \in Users |-> [charges |-> MaxCharges, last_charge_reset |-> 0]]
    /\ bulkResets = 0
    /\ reset_log = "none"
    /\ loaded = NoHandler
    /\ rpc = [r \in Runners |-> "init"]
    /\ wake = [r \in Runners |-> 0]
    /\ last_fired = [r \in Runners |-> NoTime]
    /\ fired_today = [r \in Runners |-> 0]
    /\ work_log = NoWork
    /\ spc = "init"
    /\ sender = "open"
    /\ mpc = "init"
    /\ bot_session = "open"
    /\ state = NoData
    /\ delivered = [i \in NotifIds |-> 0]
    /\ handlers = [h \in Handlers |-> Idle]
    /\ debited = 0

\* no user has a settings row yet
InitStore ==
    /\ settings = [u \in Users |-> NoSettings]
    /\ arg = NoCall
    /\ result = NoCall
    /\ InitState

Init ==
    /\ now = 0
    /\ boot = now
    /\ theme_weeks = << >>
    /\ InitStore

\* ----------------------------------------------------------------- clock
Tick ==
    /\ now % MinutesPerDay < MaxMinute
    /\ now' = now + 1
    /\ UNCHANGED <<notifVars, chargeVars, prefVars, runnerVars>>

NextDay ==
    /\ Day(now) < MaxDay
    /\ now' = (Day(now) + 1) * MinutesPerDay
    /\ bulkResets' = 0
    /\ UNCHANGED <<notifVars, users, reset_log, loaded, prefVars, runnerVars>>

\* ---------------------------------------------------- notification store
\* Notification(...) row as inserted by schedule_notification
NewNotification(t, delay) ==
    [scheduled_time |-> t + delay, sent |-> "False", sent_at |-> NoTime]

ScheduleNotification(delay) ==
    /\ Len(notifications) < MaxNotifs
    /\ notifications' = Append(notifications, NewNotification(now, delay))
    /\ UNCHANGED <<now, running, dpc, due_notifications, outcome, current,
                   attempted, chargeVars, prefVars, runnerVars>>

\* get_due_notifications: WHERE sent = false AND scheduled_time <= now
GetDueIgnoreSent(ns, t) ==
    {i \in DOMAIN ns : ns[i].scheduled_time <= t}
GetDueIgnoreTime(ns, t) ==
    {i \in DOMAIN ns : ns[i].sent = "False"}
GetDueFlipped(ns, t) ==
    {i \in DOMAIN ns : ns[i].sent = "False" /\ ns[i].scheduled_time >= t}
GetDueEnabledOnly(ns, t) ==
    {i \in DOMAIN ns : /\ ns[i].sent = "False"
                       /\ ns[i].scheduled_time <= t
                       /\ settings[ns[i].user_id].enabled}
GetDue(ns, t) ==
    {i \in DOMAIN ns : ns[i].sent = "False" /\ ns[i].scheduled_time <= t}

\* mark_notification_as_sent: UPDATE ... WHERE id = i SET sent, sent_at; commit
MarkSentAll(ns, i, t) ==
    [j \in DOMAIN ns |-> [ns[j] EXCEPT !.sent = "True", !.sent_at = t]]
MarkSentNoStamp(ns, i, t) ==
    [j \in DOMAIN ns |->
        IF j = i THEN [ns[j] EXCEPT !.sent = "True"] ELSE ns[j]]
MarkSent(ns, i, t) ==
    [j \in DOMAIN ns |->
        IF j = i THEN [ns[j] EXCEPT !.sent = "True", !.sent_at = t] ELSE ns[j]]

\* cleanup_old_notifications: UPDATE ... WHERE sent = true AND sent_at <= old
CleanupOld(ns, t, days) ==
    [j \in DOMAIN ns |->
        IF /\ ns[j].sent = "True"
           /\ ns[j].sent_at # NoTime
           /\ ns[j].sent_at <= t - days * MinutesPerDay
        THEN [ns[j] EXCEPT !.sent = "None"]
        ELSE ns[j]]

CleanupOldNotifications(days) ==
    /\ notifications' = CleanupOld(notifications, now, days)
    /\ UNCHANGED <<now, running, dpc, due_notifications, outcome, current,
                   attempted, chargeVars, prefVars, runnerVars>>

\* ------------------------------------------------------------ scheduler
\* start_scheduler: running = True, then the runners are gathered
StartScheduler ==
    /\ dpc = "init"
    /\ running' = TRUE
    /\ dpc' = "check"
    /\ rpc' = [r \in Runners |-> "check"]
    /\ spc' = "gather"
    /\ UNCHANGED <<now, notifications, due_notifications, outcome, current,
                   attempted, chargeVars, prefVars, wake, boot, sender,
                   appVars, callVars, last_fired, fired_today, work_log>>

\* stop: running = False, then the Bot session is closed (closing a closed
\* session does nothing)
StopSchedulerToggle ==
    /\ running' = ~running
    /\ sender' = IF sender = "open" THEN "closed" ELSE "open"
    /\ UNCHANGED <<now, notifications, dpc, due_notifications, outcome,
                   current, attempted, chargeVars, prefVars, rpc, wake, boot,
                   spc, appVars, callVars, last_fired, fired_today, work_log>>
StopScheduler ==
    /\ running' = FALSE
    /\ sender' = "closed"
    /\ UNCHANGED <<now, notifications, dpc, due_notifications, outcome,
                   current, attempted, chargeVars, prefVars, rpc, wake, boot,
                   spc, appVars, callVars, last_fired, fired_today, work_log>>

\* stop() called while the scheduler runs
Stop ==
    /\ running
    /\ StopScheduler

\* ------------------------------------------- run_notification_sender loop
Pending == {i \in due_notifications : outcome[i] = "none"}

\* where the loop goes after the inner except handler has logged a failure
AfterItemFailureAbort == "sleep"
AfterItemFailureExit == "exited"
AfterItemFailure == "loop"

\* while self.running
DispatchCheck ==
    /\ dpc = "check"
    /\ dpc' = IF running THEN "poll" ELSE "exited"
    /\ UNCHANGED <<now, running, notifications, due_notifications, outcome,
                   current, attempted, chargeVars, prefVars, runnerVars>>

\* due_notifications = await get_due_notifications()
DispatchPoll ==
    /\ dpc = "poll"
    /\ due_notifications' = GetDue(notifications, now)
    /\ outcome' = [i \in NotifIds |-> "none"]
    /\ dpc' = IF due_notifications' = {} THEN "sleep" ELSE "loop"
    /\ UNCHANGED <<now, running, notifications, current, attempted, chargeVars, prefVars, runnerVars>>

\* the query raises: outer except, log, sleep
DispatchPollFail ==
    /\ dpc = "poll"
    /\ dpc' = "sleep"
    /\ UNCHANGED <<now, running, notifications, due_notifications, outcome,
                   current, attempted, chargeVars, prefVars, runnerVars>>

\* bot.send_message returns
SendOk(i) ==
    /\ dpc = "loop"
    /\ i \in Pending
    /\ attempted' = attempted \cup {i}
    /\ current' = i
    /\ dpc' = "mark"
    /\ UNCHANGED <<now, running, notifications, due_notifications, outcome,
                   chargeVars, prefVars, rpc, wake, boot, spc, sender, mpc,
                   bot_session, state, handlers, debited, callVars,
                   last_fired, fired_today, work_log>>

\* bot.send_message returns, the chat not being followed
DispatchSendOk(i) ==
    /\ SendOk(i)
    /\ UNCHANGED delivered

\* bot.send_message returns and the chat has received one more copy
Deliver(i) ==
    /\ delivered[i] < MaxDeliveries
    /\ SendOk(i)
    /\ delivered' = [delivered EXCEPT ![i] = @ + 1]

\* bot.send_message raises: inner except, log, next notification
DispatchSendFail(i) ==
    /\ dpc = "loop"
    /\ i \in Pending
    /\ attempted' = attempted \cup {i}
    /\ outcome' = [outcome EXCEPT ![i] = "send_failed"]
    /\ dpc' = AfterItemFailure
    /\ UNCHANGED <<now, running, notifications, due_notifications, current,
                   chargeVars, prefVars, runnerVars>>

\* mark_notification_as_sent(notification.id) returns
DispatchMarkOk ==
    /\ dpc = "mark"
    /\ notifications' = MarkSent(notifications, current, now)
    /\ outcome' = [outcome EXCEPT ![current] = "sent"]
    /\ current' = 0
    /\ dpc' = "loop"
    /\ UNCHANGED <<now, running, due_notifications, attempted, chargeVars, prefVars, runnerVars>>

\* mark_notification_as_sent raises: inner except, log, next notification
DispatchMarkFail ==
    /\ dpc = "mark"
    /\ outcome' = [outcome EXCEPT ![current] = "mark_failed"]
    /\ current' = 0
    /\ dpc' = AfterItemFailure
    /\ UNCHANGED <<now, running, notifications, due_notifications, attempted,
                   chargeVars, prefVars, runnerVars>>

\* end of the for loop: session.commit() (every mark is already committed by
\* mark_notification_as_sent, so success and failure leave the same store)
DispatchCommit ==
    /\ dpc = "loop"
    /\ Pending = {}
    /\ dpc' = "sleep"
    /\ UNCHANGED <<now, running, notifications, due_notifications, outcome,
                   current, attempted, chargeVars, prefVars, runnerVars>>

\* asyncio.sleep(30) returns; the locals of the iteration are gone
DispatchWake ==
    /\ dpc = "sleep"
    /\ dpc' = "check"
    /\ due_notifications' = {}
    /\ outcome' = [i \in NotifIds |-> "none"]
    /\ UNCHANGED <<now, running, notifications, current, attempted, chargeVars, prefVars, runnerVars>>

CleanupDays == {0, DefaultRetention}
Delays      == {0, TestDelay}

Next ==
    \/ Tick
    \/ StartScheduler
    \/ Stop
    \/ \E d \in Delays : ScheduleNotification(d)
    \/ \E days \in CleanupDays : CleanupOldNotifications(days)
    \/ DispatchCheck
    \/ DispatchPoll
    \/ DispatchPollFail
    \/ \E i \in NotifIds : DispatchSendOk(i)
    \/ \E i \in NotifIds : DispatchSendFail(i)
    \/ DispatchMarkOk
    \/ DispatchMarkFail
    \/ DispatchCommit
    \/ DispatchWake

Spec == Init /\ [][Next]_vars

\* a liveness specification: the event loop keeps scheduling the dispatch
\* coroutine and time passes (weak fairness); the store and the sender, when
\* tried again and again, eventually answer (strong fairness)
Fairness ==
    /\ WF_vars(Tick)
    /\ WF_vars(DispatchCheck)
    /\ WF_vars(DispatchCommit)
    /\ WF_vars(DispatchWake)
    /\ SF_vars(DispatchPoll)
    /\ SF_vars(DispatchMarkOk)
    /\ \A i \in NotifIds : SF_vars(DispatchSendOk(i))

FairSpec == Spec /\ Fairness

\* the process dies at any point of the dispatch loop and is started again:
\* what it held in memory is gone, the store keeps what was committed
CrashKeepsPendingMark ==
    /\ dpc # "init"
    /\ running' = FALSE
    /\ dpc' = "init"
    /\ due_notifications' = {}
    /\ outcome' = [i \in NotifIds |-> "none"]
    /\ current' = 0
    /\ rpc' = [r \in Runners |-> "init"]
    /\ notifications' = IF dpc = "mark"
                        THEN MarkSent(notifications, current, now)
                        ELSE notifications
    /\ UNCHANGED <<now, attempted, chargeVars, prefVars, wake, boot, lifeVars,
                   callVars, last_fired, fired_today, work_log>>
Crash ==
    /\ dpc # "init"
    /\ running' = FALSE
    /\ dpc' = "init"
    /\ due_notifications' = {}
    /\ outcome' = [i \in NotifIds |-> "none"]
    /\ current' = 0
    /\ rpc' = [r \in Runners |-> "init"]
    /\ UNCHANGED <<now, notifications, attempted, chargeVars, prefVars, wake,
                   boot, lifeVars, callVars, last_fired, fired_today,
                   work_log>>

\* the dispatch loop with the chat followed, over crashes and restarts
DeliveryNext ==
    \/ StartScheduler
    \/ Crash
    \/ \E d \in Delays : ScheduleNotification(d)
    \/ DispatchCheck
    \/ DispatchPoll
    \/ DispatchPollFail
    \/ \E i \in NotifIds : Deliver(i)
    \/ \E i \in NotifIds : DispatchSendFail(i)
    \/ DispatchMarkOk
    \/ DispatchMarkFail
    \/ DispatchCommit
    \/ DispatchWake

DeliverySpec == Init /\ [][DeliveryNext]_vars

\* ------------------------------------------------------- users' charges
\* check_and_reset_charges: the user object after the call
CheckAndResetAnyDay(u, t) ==
    [u EXCEPT !.charges = MaxCharges, !.last_charge_reset = t]
CheckAndReset(u, t) ==
    IF Day(t) # Day(u.last_charge_reset)
    THEN [u EXCEPT !.charges = MaxCharges, !.last_charge_reset = t]
    ELSE u

\* consume_charge: the user after the call
ConsumeNoGuard(u, t) ==
    LET r == CheckAndReset(u, t)
    IN  [r EXCEPT !.charges = @ - 1]
Consume(u, t) ==
    LET r == CheckAndReset(u, t)
    IN  IF r.charges > 0 THEN [r EXCEPT !.charges = @ - 1] ELSE r

\* consume_charge: the value it returns
ConsumeReturns(u, t) == CheckAndReset(u, t).charges > 0

\* UPDATE users SET charges = 3, last_charge_reset = now (no WHERE clause)
ResetAllUsersAddOne(us, t) ==
    [u \in DOMAIN us |->
        [charges |-> IF us[u].charges < MaxCharges THEN us[u].charges + 1
                     ELSE MaxCharges,
         last_charge_reset |-> t]]
ResetAllUsersNotResetToday(us, t) ==
    [u \in DOMAIN us |->
        IF Day(us[u].last_charge_reset) # Day(t)
        THEN [charges |-> MaxCharges, last_charge_reset |-> t]
        ELSE us[u]]
ResetAllUsers(us, t) ==
    [u \in DOMAIN us |-> [charges |-> MaxCharges, last_charge_reset |-> t]]

\* a write to users other than the bulk reset ends a run of bulk resets
AfterWrite == bulkResets' = IF users' = users THEN bulkResets ELSE 0

\* a handler that loads the user and flushes with nothing in between
CheckAndResetCharges(u) ==
    /\ users' = [users EXCEPT ![u] = CheckAndReset(@, now)]
    /\ AfterWrite
    /\ UNCHANGED <<now, notifVars, reset_log, loaded, prefVars, runnerVars>>

ConsumeCharge(u) ==
    /\ users' = [users EXCEPT ![u] = Consume(@, now)]
    /\ AfterWrite
    /\ UNCHANGED <<now, notifVars, reset_log, loaded, prefVars, runnerVars>>

\* get_or_create_user in a handler's own session: the row as it is now
HandlerLoad(u) ==
    /\ loaded.user = 0
    /\ loaded' = [user |-> u, charges |-> users[u].charges,
                  last_charge_reset |-> users[u].last_charge_reset]
    /\ UNCHANGED <<now, notifVars, users, bulkResets, reset_log, prefVars, runnerVars>>

\* flush: UPDATE users SET <the attributes the handler changed> WHERE id = ..
Flush(row, old, new) ==
    [charges |-> IF new.charges # old.charges THEN new.charges
                 ELSE row.charges,
     last_charge_reset |->
         IF new.last_charge_reset # old.last_charge_reset
         THEN new.last_charge_reset ELSE row.last_charge_reset]

\* consume_charge(user) on the object loaded earlier: the lazy reset and its
\* flush, the decrement and its flush, then the commit of the handler's
\* session (log_user_activity)
HandlerFlush ==
    /\ loaded.user # 0
    /\ LET old == [charges |-> loaded.charges,
                   last_charge_reset |-> loaded.last_charge_reset]
           mid == CheckAndReset(old, now)
       IN  users' = [users EXCEPT
                        ![loaded.user] =
                            Flush(Flush(@, old, mid), mid, Consume(old, now))]
    /\ loaded' = NoHandler
    /\ AfterWrite
    /\ UNCHANGED <<now, notifVars, reset_log, prefVars, rpc, wake, boot,
                   lifeVars, arg, last_fired, fired_today, work_log>>

\* the handler's consumption, what it was told not being followed
HandlerConsume ==
    /\ HandlerFlush
    /\ UNCHANGED result

\* ok = await consume_charge(user): the handler's consumption and what it
\* was told
HandlerConsumeTold ==
    /\ HandlerFlush
    /\ result' = [user |-> loaded.user,
                  ok |-> ConsumeReturns([charges |-> loaded.charges,
                                         last_charge_reset |->
                                             loaded.last_charge_reset], now),
                  at |-> now]

\* cb_admin_reset_charges
AdminResetCharges(u) ==
    /\ users' = [users EXCEPT ![u] = [charges |-> MaxCharges,
                                      last_charge_reset |-> now]]
    /\ AfterWrite
    /\ UNCHANGED <<now, notifVars, reset_log, loaded, prefVars, runnerVars>>

\* _reset_charges_for_all: the bulk update and its commit, or an exception
\* and the rollback
ResetChargesForAll ==
    /\ \/ /\ users' = ResetAllUsers(users, now)
          /\ bulkResets' = IF bulkResets >= 1 THEN 2 ELSE 1
          /\ reset_log' = "reset"
       \/ /\ reset_log' = "error"
          /\ UNCHANGED <<users, bulkResets>>
    /\ UNCHANGED <<now, notifVars, loaded, prefVars, runnerVars>>

ChargeNext ==
    \/ Tick
    \/ NextDay
    \/ ResetChargesForAll
    \/ \E u \in Users : CheckAndResetCharges(u)
    \/ \E u \in Users : ConsumeCharge(u)
    \/ \E u \in Users : AdminResetCharges(u)

ChargeSpec == Init /\ [][ChargeNext]_vars

\* the same operations over whole days, with one request handler whose load
\* and flush are separate steps, so that every other operation can fall
\* between them
RaceNext ==
    \/ NextDay
    \/ ResetChargesForAll
    \/ \E u \in Users : CheckAndResetCharges(u)
    \/ \E u \in Users : ConsumeCharge(u)
    \/ \E u \in Users : HandlerLoad(u)
    \/ HandlerConsume
    \/ \E u \in Users : AdminResetCharges(u)

RaceSpec == Init /\ [][RaceNext]_vars

\* a handler that consumes, told whether it did, against the bulk reset
LostUpdateNext ==
    \/ NextDay
    \/ ResetChargesForAll
    \/ \E u \in Users : HandlerLoad(u)
    \/ HandlerConsumeTold

LostUpdateSpec == Init /\ [][LostUpdateNext]_vars

\* ------------------------------------------ the two calls on a User object
\* arg is the User object a handler holds, result what the last call on it
\* was given and returned

\* user = await user_service.check_and_reset_charges(user)
CheckAndResetCall ==
    /\ arg' = CheckAndReset(arg, now)
    /\ result' = [call |-> "check_and_reset_charges", before |-> arg,
                  at |-> now, ok |-> TRUE]
    /\ UNCHANGED <<now, notifVars, chargeVars, prefVars, rpc, wake, boot,
                   lifeVars, last_fired, fired_today, work_log>>

\* ok = await user_service.consume_charge(user)
ConsumeChargeCall ==
    /\ arg' = Consume(arg, now)
    /\ result' = [call |-> "consume_charge", before |-> arg, at |-> now,
                  ok |-> ConsumeReturns(arg, now)]
    /\ UNCHANGED <<now, notifVars, chargeVars, prefVars, rpc, wake, boot,
                   lifeVars, last_fired, fired_today, work_log>>

\* a User row with any charges, reset today or never, with or without points
UserInit ==
    /\ now = 0
    /\ boot = now
    /\ theme_weeks = << >>
    /\ settings = [u \in Users |-> NoSettings]
    /\ \E c \in 0..MaxCharges, r \in {NoTime, 0}, p \in {0, PointsPerLevel} :
          arg = [charges |-> c, last_charge_reset |-> r, points |-> p,
                 level |-> p \div PointsPerLevel + 1]
    /\ result = NoCall
    /\ InitState

UserNext ==
    \/ Tick
    \/ NextDay
    \/ CheckAndResetCall
    \/ ConsumeChargeCall

UserSpec == UserInit /\ [][UserNext]_vars

\* ------------------------------------------- the mission conversation
\* the user whose conversation is followed
Player == CHOOSE u \in Users : \A v \in Users : u <= v

\* callback_difficulty: the lazy reset; with no charge left the state is
\* cleared; otherwise mission m is picked, current_mission_id = m and
\* charge_consumed = False are stored and log_user_activity commits
CallbackDifficulty(m) ==
    /\ \A h \in Handlers : handlers[h].pc = "idle"
    /\ LET user == CheckAndReset(users[Player], now)
       IN  IF user.charges <= 0
           THEN /\ state' = NoData
                /\ UNCHANGED users
           ELSE /\ state' = [current_mission_id |-> m,
                            charge_consumed |-> FALSE]
                /\ users' = [users EXCEPT ![Player] = user]
    /\ debited' = 0
    /\ AfterWrite
    /\ UNCHANGED <<now, notifVars, reset_log, loaded, prefVars, rpc, wake,
                   boot, spc, sender, mpc, bot_session, delivered, handlers,
                   callVars, last_fired, fired_today, work_log>>

\* callback_mission_done, data = await state.get_data(): without a current
\* mission the state is cleared and the handler returns
MissionDoneGetData(h) ==
    /\ handlers[h].pc = "idle"
    /\ IF state.current_mission_id = 0
       THEN /\ state' = NoData
            /\ UNCHANGED handlers
       ELSE /\ handlers' = [handlers EXCEPT
                               ![h] = [Idle EXCEPT
                                   !.pc = "data",
                                   !.mission_id = state.current_mission_id,
                                   !.charge_consumed = state.charge_consumed]]
            /\ UNCHANGED state
    /\ UNCHANGED <<now, notifVars, chargeVars, prefVars, rpc, wake, boot, spc,
                   sender, mpc, bot_session, delivered, debited, callVars,
                   last_fired, fired_today, work_log>>

\* user = await user_service.get_or_create_user(...): the committed row
MissionDoneLoad(h) ==
    /\ handlers[h].pc = "data"
    /\ handlers' = [handlers EXCEPT ![h] = [@ EXCEPT !.pc = "loaded",
                                                     !.old = users[Player],
                                                     !.new = users[Player]]]
    /\ UNCHANGED <<now, notifVars, chargeVars, prefVars, rpc, wake, boot, spc,
                   sender, mpc, bot_session, state, delivered, debited,
                   callVars, last_fired, fired_today, work_log>>

\* check_and_reset_charges, then `if not charge_consumed`: consume_charge;
\* not ok: the state is cleared and the handler returns, nothing committed;
\* ok: state.update_data(charge_consumed=True)
MissionDoneConsume(h) ==
    /\ handlers[h].pc = "loaded"
    /\ LET user == CheckAndReset(handlers[h].old, now)
       IN  IF handlers[h].charge_consumed
           THEN /\ handlers' = [handlers EXCEPT ![h] = [@ EXCEPT
                                    !.pc = "report", !.new = user]]
                /\ UNCHANGED state
           ELSE IF ConsumeReturns(user, now)
           THEN /\ handlers' = [handlers EXCEPT ![h] = [@ EXCEPT
                                    !.pc = "report",
                                    !.new = Consume(user, now)]]
                /\ state' = [state EXCEPT !.charge_consumed = TRUE]
           ELSE /\ handlers' = [handlers EXCEPT ![h] = Idle]
                /\ state' = NoData
    /\ UNCHANGED <<now, notifVars, chargeVars, prefVars, rpc, wake, boot, spc,
                   sender, mpc, bot_session, delivered, debited, callVars,
                   last_fired, fired_today, work_log>>

\* the rest of callback_mission_done.  committed: the report is asked for
\* and log_user_activity commits the session, the flushed writes with it;
\* otherwise nothing is committed: the mission is not found or an await
\* raises (cleared: the state is cleared), or the commit of the log raises
MissionDoneEnd(h, committed, cleared) ==
    /\ handlers[h].pc = "report"
    /\ committed => ~cleared
    /\ LET mid == CheckAndReset(handlers[h].old, now)
       IN  users' = IF committed
                    THEN [users EXCEPT
                             ![Player] = Flush(Flush(@, handlers[h].old, mid),
                                               mid, handlers[h].new)]
                    ELSE users
    /\ debited' = IF users'[Player].charges < users[Player].charges
                  THEN debited + 1 ELSE debited
    /\ state' = IF cleared THEN NoData ELSE state
    /\ handlers' = [handlers EXCEPT ![h] = Idle]
    /\ AfterWrite
    /\ UNCHANGED <<now, notifVars, reset_log, loaded, prefVars, rpc, wake,
                   boot, spc, sender, mpc, bot_session, delivered, callVars,
                   last_fired, fired_today, work_log>>

MissionNext ==
    \/ \E m \in 1..MaxMissions : CallbackDifficulty(m)
    \/ \E h \in Handlers : MissionDoneGetData(h)
    \/ \E h \in Handlers : MissionDoneLoad(h)
    \/ \E h \in Handlers : MissionDoneConsume(h)
    \/ \E h \in Handlers, committed \in BOOLEAN, cleared \in BOOLEAN :
          MissionDoneEnd(h, committed, cleared)

MissionSpec == Init /\ [][MissionNext]_vars

\* ------------------------------------------------ notification settings
\* get_user_settings: the user's row, created with the defaults if missing
GetUserSettings(st, u) == IF st[u].exists THEN st[u] ELSE DefaultSettings

\* the table after get_user_settings has been called for every user of S
WithSettings(st, S) ==
    [u \in DOMAIN st |-> IF u \in S THEN GetUserSettings(st, u) ELSE st[u]]

\* update_user_settings(user_id, key=value)
UpdateUserSettings(u, key, value) ==
    /\ settings' = [settings EXCEPT
                       ![u] = [GetUserSettings(settings, u) EXCEPT ![key] = value]]
    /\ UNCHANGED <<now, notifVars, chargeVars, theme_weeks, runnerVars>>

\* ------------------------------------------------------ units of work
\* Notification(user_id, notification_type, title, scheduled_time) as
\* inserted by schedule_notification; title is the id of the theme week the
\* row announces, 0 for the fixed titles
Row(u, type, title, t, delay) ==
    [user_id |-> u, notification_type |-> type, title |-> title,
     scheduled_time |-> NewNotification(t, delay).scheduled_time,
     sent |-> NewNotification(t, delay).sent,
     sent_at |-> NewNotification(t, delay).sent_at]

\* the users table in the order the runners walk it
UserSeq == [i \in 1..MaxUsers |-> i]

\* one schedule_notification call for every user of S
Enqueue(ns, S, type, title, t, delay) ==
    LET In(u) == u \in S
        sel   == SelectSeq(UserSeq, In)
    IN  ns \o [i \in 1..Len(sel) |-> Row(sel[i], type, title, t, delay)]

\* one fan-out over the users of S for every theme week of W
RECURSIVE EnqueueWeeks(_, _, _, _)
EnqueueWeeks(ns, S, W, t) ==
    IF W = {} THEN ns
    ELSE LET w == CHOOSE x \in W : \A y \in W : x <= y
         IN  EnqueueWeeks(Enqueue(ns, S, "theme_week_start", w, t, 0),
                          S, W \ {w}, t)

\* the store takes no more than MaxNotifs rows: a further insert raises
Room == MaxNotifs - Len(notifications)

\* _send_daily_reminders_to_all / send_daily_reminder: who gets a reminder
DailyRecipients(st, us) ==
    {u \in Users : /\ GetUserSettings(st, u).enabled
                   /\ GetUserSettings(st, u).daily_reminders
                   /\ us[u].charges > 0}

\* the body of a firing iteration of run_daily_tasks: the reminders, then
\* the reset.  F: the users whose block of the reminder loop raised;
\* reset: what _reset_charges_for_all logged
DailyTasksResetUnlessRaised(F, reset) ==
    /\ Cardinality(DailyRecipients(settings, users) \ F) <= Room
    /\ settings' = WithSettings(settings, Users \ F)
    /\ notifications' = Enqueue(notifications,
                                DailyRecipients(settings, users) \ F,
                                "daily_reminder", 0, now, 0)
    /\ users' = IF reset = "reset" /\ F = {}
                THEN ResetAllUsers(users, now) ELSE users
    /\ bulkResets' = IF reset # "reset" \/ F # {} THEN bulkResets
                     ELSE IF bulkResets >= 1 THEN 2 ELSE 1
    /\ reset_log' = IF F = {} THEN reset ELSE "skipped"
    /\ work_log' = [kind |-> "daily", raised |-> F, week |-> 0]
DailyTasks(F, reset) ==
    /\ Cardinality(DailyRecipients(settings, users) \ F) <= Room
    /\ settings' = WithSettings(settings, Users \ F)
    /\ notifications' = Enqueue(notifications,
                                DailyRecipients(settings, users) \ F,
                                "daily_reminder", 0, now, 0)
    /\ users' = IF reset = "reset" THEN ResetAllUsers(users, now) ELSE users
    /\ bulkResets' = IF reset # "reset" THEN bulkResets
                     ELSE IF bulkResets >= 1 THEN 2 ELSE 1
    /\ reset_log' = reset
    /\ work_log' = [kind |-> "daily", raised |-> F, week |-> 0]

\* -------------------------------------------- /toggle_notifications
\* cmd_toggle_notifications: enabled is flipped; when it became True a
\* "welcome" notification is scheduled one minute ahead
CmdToggleNotifications(u) ==
    LET new_status == ~GetUserSettings(settings, u).enabled
    IN  /\ new_status => Room > 0
        /\ settings' = [settings EXCEPT
                           ![u] = [GetUserSettings(settings, u)
                                       EXCEPT !.enabled = new_status]]
        /\ notifications' =
               IF new_status
               THEN Append(notifications, Row(u, "welcome", 0, now, TestDelay))
               ELSE notifications
        /\ UNCHANGED <<now, running, dpc, due_notifications, outcome, current,
                       attempted, chargeVars, theme_weeks, runnerVars>>

\* the dispatch loop, the chat followed, among the toggles of a user; the
\* store answers every query
ToggleNext ==
    \/ Tick
    \/ StartScheduler
    \/ CmdToggleNotifications(Player)
    \/ DispatchCheck
    \/ DispatchPoll
    \/ \E i \in NotifIds : Deliver(i)
    \/ \E i \in NotifIds : DispatchSendFail(i)
    \/ DispatchMarkOk
    \/ DispatchCommit
    \/ DispatchWake

ToggleSpec == Init /\ [][ToggleNext]_vars

\* ------------------------------------------------ time-windowed runners
\* the trigger window of a runner
InWindow(r, t) ==
    /\ t % MinutesPerDay < WindowMinutes
    /\ r = "weekly" => Day(t) % DaysPerWeek = 0

\* the sleep of an iteration that did not fire
PollSleepHourly(r) == HourSleep
PollSleep(r) == IF r = "weekly" THEN HourSleep ELSE MinuteSleep

\* the sleep after the outer except handler
ErrorSleep(r) == IF r = "weekly" THEN HourSleep ELSE MinuteSleep

\* the midnight the clock of a runner is followed across: the first one
\* after the epoch, and for the weekly runner the first one of a Monday
\* (day 0 of the model is a Monday)
Midnight(r) ==
    IF r = "weekly" THEN DaysPerWeek * MinutesPerDay ELSE MinutesPerDay

\* a runner is followed until its clock has left the window of that midnight
Horizon(r) == Midnight(r) + WindowMinutes

\* while self.running: now = utcnow(); if <window>: ... else: sleep
RunnerCheck(r) ==
    /\ rpc[r] = "check"
    /\ IF ~running
       THEN /\ rpc' = [rpc EXCEPT ![r] = "exited"]
            /\ UNCHANGED wake
       ELSE IF InWindow(r, now)
       THEN /\ rpc' = [rpc EXCEPT ![r] = "fire"]
            /\ UNCHANGED wake
       ELSE /\ rpc' = [rpc EXCEPT ![r] = "sleep"]
            /\ wake' = [wake EXCEPT ![r] = now + PollSleep(r)]
    /\ UNCHANGED <<now, notifVars, chargeVars, prefVars, boot, lifeVars,
                   callVars, last_fired,
                   fired_today, work_log>>

\* asyncio.sleep returns, on time or up to MaxJitter minutes late
RunnerWake(r) ==
    /\ rpc[r] = "sleep"
    /\ now < Horizon(r)
    /\ \E j \in 0..MaxJitter :
        /\ wake[r] + j >= now
        /\ now' = wake[r] + j
    /\ rpc' = [rpc EXCEPT ![r] = "check"]
    /\ bulkResets' = IF Day(now') = Day(now) THEN bulkResets ELSE 0
    /\ work_log' = NoWork
    /\ UNCHANGED <<notifVars, users, reset_log, loaded, prefVars, wake,
                   boot, lifeVars, callVars,
                   last_fired, fired_today>>

\* the unit-of-work of runner r has run at time t; escaped: an exception left
\* the async with block, so the outer except handler chose the sleep
Fired(r, escaped) ==
    /\ wake' = [wake EXCEPT
                   ![r] = now + IF escaped THEN ErrorSleep(r) ELSE DebounceSleep]
    /\ last_fired' = [last_fired EXCEPT ![r] = now]
    /\ fired_today' = [fired_today EXCEPT
                          ![r] = IF Day(last_fired[r]) = Day(now)
                                 THEN @ + 1 ELSE 1]

\* where a runner goes when its unit-of-work is over, escaped or not: both
\* the try block and the except handler end in asyncio.sleep
AfterUnitOfWorkRaise(escaped) == IF escaped THEN "exited" ELSE "sleep"
AfterUnitOfWork(escaped) == "sleep"

\* run_daily_tasks inside the window.  An exception escapes when the
\* rollback of a failed reset raises or when closing the session raises.
DailyFire ==
    /\ rpc["daily"] = "fire"
    /\ \E F \in SUBSET Users, reset \in {"reset", "error"}, escaped \in BOOLEAN :
        /\ DailyTasks(F, reset)
        /\ Fired("daily", escaped)
        /\ rpc' = [rpc EXCEPT !["daily"] = AfterUnitOfWork(escaped)]
    /\ UNCHANGED <<now, running, dpc, due_notifications, outcome, current,
                   attempted, loaded, theme_weeks, boot, lifeVars, callVars>>

\* the process is started shortly before midnight, or inside the window
DailyStarts ==
    {Midnight("daily") + d : d \in (0 - WindowMinutes)..(WindowMinutes - 1)}

DailyInit ==
    /\ now \in DailyStarts
    /\ boot = now
    /\ theme_weeks = << >>
    /\ InitStore

DailyNext ==
    \/ StartScheduler
    \/ Stop
    \/ RunnerCheck("daily")
    \/ DailyFire
    \/ RunnerWake("daily")

DailySpec == DailyInit /\ [][DailyNext]_vars

\* _send_weekly_stats_to_all / send_weekly_stats: who gets the digest
WeeklyRecipientsIgnoreFlag(st) ==
    {u \in Users : GetUserSettings(st, u).enabled}
WeeklyRecipients(st) ==
    {u \in Users : /\ GetUserSettings(st, u).enabled
                   /\ GetUserSettings(st, u).weekly_stats}

\* the body of a firing iteration of run_weekly_tasks.  F: the users whose
\* block of the loop raised
WeeklyTasks(F) ==
    /\ Cardinality(WeeklyRecipients(settings) \ F) <= Room
    /\ settings' = WithSettings(settings, Users \ F)
    /\ notifications' = Enqueue(notifications, WeeklyRecipients(settings) \ F,
                                "weekly_stats", 0, now, TestDelay)
    /\ work_log' = [kind |-> "weekly", raised |-> F, week |-> 0]

\* run_weekly_tasks inside the window; an exception escapes when closing the
\* session raises
WeeklyFire ==
    /\ rpc["weekly"] = "fire"
    /\ \E F \in SUBSET Users, escaped \in BOOLEAN :
        /\ WeeklyTasks(F)
        /\ Fired("weekly", escaped)
        /\ rpc' = [rpc EXCEPT !["weekly"] = AfterUnitOfWork(escaped)]
    /\ UNCHANGED <<now, running, dpc, due_notifications, outcome, current,
                   attempted, chargeVars, theme_weeks, boot, lifeVars, callVars>>

\* the process is started at any minute of the hour before a Monday begins
WeeklyStarts ==
    {Midnight("weekly") - m : m \in 1..HourSleep}

WeeklyInit ==
    /\ now \in WeeklyStarts
    /\ boot = now
    /\ theme_weeks = << >>
    /\ InitStore

\* the flags the weekly fan-out reads
WeeklyKeys == {"enabled", "weekly_stats"}

WeeklyNext ==
    \/ StartScheduler
    \/ Stop
    \/ \E u \in Users, key \in WeeklyKeys, value \in BOOLEAN :
          UpdateUserSettings(u, key, value)
    \/ RunnerCheck("weekly")
    \/ WeeklyFire
    \/ RunnerWake("weekly")

WeeklySpec == WeeklyInit /\ [][WeeklyNext]_vars

\* ------------------------------------------------------------ theme weeks
\* ThemeWeek(start_date, end_date), active by default
ThemeWeek(start, end) ==
    [start_date |-> start, end_date |-> end, active |-> TRUE]

\* the midnight after the last modelled day
LastDate == (MaxDay + 1) * MinutesPerDay

\* the tables the theme weeks are read from (they are written outside this
\* program): no week, one week over all the modelled days, one week from the
\* second day on, and two weeks that overlap on the first day
ThemeTables ==
    { << >>,
      << ThemeWeek(0, LastDate) >>,
      << ThemeWeek(MinutesPerDay, LastDate) >>,
      << ThemeWeek(0, LastDate), ThemeWeek(0, MinutesPerDay - 1) >> }

\* cleanup_finished_weeks: UPDATE ... WHERE end_date < now AND active
CleanupFinishedWeeks ==
    /\ theme_weeks' =
           [i \in DOMAIN theme_weeks |->
               IF theme_weeks[i].end_date < now /\ theme_weeks[i].active
               THEN [theme_weeks[i] EXCEPT !.active = FALSE]
               ELSE theme_weeks[i]]
    /\ UNCHANGED <<now, notifVars, chargeVars, settings, runnerVars>>

\* WHERE active AND start_date <= now AND end_date >= now
ActiveWeeks(tw, t) ==
    {i \in DOMAIN tw : /\ tw[i].active
                       /\ tw[i].start_date <= t
                       /\ tw[i].end_date >= t}

\* scalar_one_or_none() of that query: the week to announce, if there is
\* exactly one row; no row gives None, several rows raise
ThemeTargetsAll(tw, t) == ActiveWeeks(tw, t)
ThemeTargets(tw, t) ==
    IF Cardinality(ActiveWeeks(tw, t)) = 1 THEN ActiveWeeks(tw, t) ELSE {}

\* if not settings_obj.enabled: continue
ThemeRecipientsAll(st) == Users
ThemeRecipients(st) == {u \in Users : GetUserSettings(st, u).enabled}

\* the body of a firing iteration of run_theme_week_switch.  F: the users
\* whose block of the loop raised
ThemeTasks(F) ==
    LET W == ThemeTargets(theme_weeks, now)
        S == IF W = {} THEN {} ELSE ThemeRecipients(settings) \ F
    IN  /\ W = {} => F = {}
        /\ Cardinality(S) * Cardinality(W) <= Room
        /\ settings' = IF W = {} THEN settings
                       ELSE WithSettings(settings, Users \ F)
        /\ notifications' = EnqueueWeeks(notifications, S, W, now)
        /\ work_log' = [kind |-> "theme", raised |-> F,
                        week |-> IF W = {} THEN 0
                                 ELSE CHOOSE w \in W : \A x \in W : w <= x]

\* --------------------------- firing iterations on the clock of whole minutes
\* runner r is at the top of its loop, awake and inside its window
Firing(r) ==
    /\ running
    /\ rpc[r] = "check"
    /\ now >= wake[r]
    /\ InWindow(r, now)

\* an exception leaves the async with block of run_theme_week_switch when
\* scalar_one_or_none() finds several rows, or when the session fails
ThemeEscapesOnNone(sessionFails) ==
    sessionFails \/ Cardinality(ActiveWeeks(theme_weeks, now)) # 1
ThemeEscapes(sessionFails) ==
    sessionFails \/ Cardinality(ActiveWeeks(theme_weeks, now)) > 1

\* one firing iteration of run_theme_week_switch, up to its sleep
RunThemeWeekSwitch ==
    /\ Firing("theme")
    /\ \E F \in SUBSET Users, sessionFails \in BOOLEAN :
        /\ ThemeTasks(F)
        /\ Fired("theme", ThemeEscapes(sessionFails))
    /\ UNCHANGED <<now, running, dpc, due_notifications, outcome, current,
                   attempted, chargeVars, theme_weeks, rpc, boot,
                   lifeVars, callVars>>

ThemeInit ==
    /\ now = 0
    /\ boot = now
    /\ theme_weeks \in ThemeTables
    /\ InitStore

ThemeNext ==
    \/ NextDay
    \/ StartScheduler
    \/ \E u \in Users, value \in BOOLEAN :
          UpdateUserSettings(u, "enabled", value)
    \/ CleanupFinishedWeeks
    \/ RunThemeWeekSwitch

ThemeSpec == ThemeInit /\ [][ThemeNext]_vars

\* one firing iteration of run_daily_tasks, up to its sleep
RunDailyTasks ==
    /\ Firing("daily")
    /\ \E F \in SUBSET Users, reset \in {"reset", "error"}, escaped \in BOOLEAN :
        /\ DailyTasks(F, reset)
        /\ Fired("daily", escaped)
    /\ UNCHANGED <<now, running, dpc, due_notifications, outcome, current,
                   attempted, loaded, theme_weeks, rpc, boot,
                   lifeVars, callVars>>

\* the daily unit-of-work among the users' consumptions, over whole days
ReminderNext ==
    \/ NextDay
    \/ StartScheduler
    \/ \E u \in Users : ConsumeCharge(u)
    \/ RunDailyTasks

ReminderSpec == Init /\ [][ReminderNext]_vars

\* ------------------------------------------------- the five runners together
\* run_theme_week_switch inside the window
ThemeFire ==
    /\ rpc["theme"] = "fire"
    /\ \E F \in SUBSET Users, sessionFails \in BOOLEAN :
        /\ ThemeTasks(F)
        /\ Fired("theme", ThemeEscapes(sessionFails))
        /\ rpc' = [rpc EXCEPT
                      !["theme"] = AfterUnitOfWork(ThemeEscapes(sessionFails))]
    /\ UNCHANGED <<now, running, dpc, due_notifications, outcome, current,
                   attempted, chargeVars, theme_weeks, boot, lifeVars,
                   callVars>>

\* run_cleanup_tasks: while self.running, then asyncio.sleep(3600) first
CleanupCheck ==
    /\ rpc["cleanup"] = "check"
    /\ IF ~running
       THEN /\ rpc' = [rpc EXCEPT !["cleanup"] = "exited"]
            /\ UNCHANGED wake
       ELSE /\ rpc' = [rpc EXCEPT !["cleanup"] = "sleep"]
            /\ wake' = [wake EXCEPT !["cleanup"] = now + HourSleep]
    /\ UNCHANGED <<now, notifVars, chargeVars, prefVars, boot, lifeVars,
                   callVars, last_fired, fired_today, work_log>>

\* the rest of the iteration of run_cleanup_tasks: the expired requests and
\* pairs are cleaned up (tables outside this model), or the except handler
\* logs; either way the loop goes back to its while
CleanupWork ==
    /\ rpc["cleanup"] = "fire"
    /\ rpc' = [rpc EXCEPT !["cleanup"] = "check"]
    /\ last_fired' = [last_fired EXCEPT !["cleanup"] = now]
    /\ fired_today' = [fired_today EXCEPT
                          !["cleanup"] = IF Day(last_fired["cleanup"]) = Day(now)
                                         THEN @ + 1 ELSE 1]
    /\ work_log' = [kind |-> "cleanup", raised |-> {}, week |-> 0]
    /\ UNCHANGED <<now, notifVars, chargeVars, prefVars, wake, boot, lifeVars,
                   callVars>>

\* the runners are followed while running up to this time
LifeHorizon == WindowMinutes + MaxMinute

\* the sleep of runner r returns: the earliest sleeper wakes first and the
\* clock is at least the end of its sleep.  The cleanup runner goes on with
\* its work, the others go back to their while
RunnerResume(r) ==
    /\ rpc[r] = "sleep"
    /\ \A q \in Runners : rpc[q] = "sleep" => wake[r] <= wake[q]
    /\ running => wake[r] <= LifeHorizon
    /\ now' = IF wake[r] > now THEN wake[r] ELSE now
    /\ rpc' = [rpc EXCEPT ![r] = IF r = "cleanup" THEN "fire" ELSE "check"]
    /\ bulkResets' = IF Day(now') = Day(now) THEN bulkResets ELSE 0
    /\ UNCHANGED <<notifVars, users, reset_log, loaded, prefVars, wake, boot,
                   lifeVars, callVars, last_fired, fired_today, work_log>>

\* every coroutine gathered by start_scheduler has returned
AllExitedAny ==
    \/ dpc = "exited"
    \/ \E r \in Runners : rpc[r] = "exited"
AllExited ==
    /\ dpc = "exited"
    /\ \A r \in Runners : rpc[r] = "exited"

\* asyncio.gather(*tasks) returns and start_scheduler with it
StartSchedulerReturn ==
    /\ spc = "gather"
    /\ AllExited
    /\ spc' = "returned"
    /\ UNCHANGED <<now, notifVars, chargeVars, prefVars, rpc, wake, boot,
                   sender, appVars, callVars, last_fired, fired_today,
                   work_log>>

\* the process comes up on a Monday right after the trigger window
LifeInit ==
    /\ now = WindowMinutes
    /\ boot = now
    /\ theme_weeks = << >>
    /\ InitStore

LifeNext ==
    \/ StartScheduler
    \/ StopScheduler
    \/ StartSchedulerReturn
    \/ DispatchCheck
    \/ DispatchPoll
    \/ DispatchPollFail
    \/ DispatchWake
    \/ \E r \in {"daily", "weekly", "theme"} : RunnerCheck(r)
    \/ CleanupCheck
    \/ CleanupWork
    \/ \E r \in Runners : RunnerResume(r)

LifeSpec == LifeInit /\ [][LifeNext]_vars

\* the event loop keeps running every coroutine that is ready, every query
\* of an iteration returns or raises, and every asyncio.sleep ends
LifeFairness ==
    /\ WF_vars(DispatchCheck)
    /\ WF_vars(DispatchPoll)
    /\ WF_vars(DispatchWake)
    /\ \A r \in {"daily", "weekly", "theme"} : WF_vars(RunnerCheck(r))
    /\ WF_vars(CleanupCheck)
    /\ WF_vars(CleanupWork)
    /\ \A r \in Runners : WF_vars(RunnerResume(r))
    /\ WF_vars(StartSchedulerReturn)

LifeFairSpec == LifeSpec /\ LifeFairness

\* ------------------------------------------------------------------- main
\* main(): the scheduler has been constructed and main awaits
\* asyncio.gather(dp.start_polling(...), scheduler.start_scheduler())
MainGather ==
    /\ mpc = "init"
    /\ mpc' = "gather"
    /\ UNCHANGED <<now, notifVars, chargeVars, prefVars, rpc, wake, boot, spc,
                   sender, bot_session, state, delivered, handlers, debited,
                   callVars, last_fired, fired_today, work_log>>

\* the gathered start_scheduler() begins to run
MainStartScheduler ==
    /\ mpc = "gather"
    /\ StartScheduler

\* a step of one of the coroutines gathered by start_scheduler
MainRunnerStep ==
    /\ spc = "gather"
    /\ \/ DispatchCheck
       \/ DispatchPoll
       \/ DispatchPollFail
       \/ DispatchWake
       \/ \E r \in {"daily", "weekly", "theme"} : RunnerCheck(r)
       \/ CleanupCheck
       \/ CleanupWork
       \/ \E r \in Runners : RunnerResume(r)

\* the await of main's gather ends: start_polling raised or returned after a
\* signal, or KeyboardInterrupt was delivered; control reaches `finally`.
\* (start_scheduler returns only once running is False, and running is set to
\* False by stop() alone.)
MainInterrupted ==
    /\ mpc = "gather"
    /\ mpc' = "finally"
    /\ UNCHANGED <<now, notifVars, chargeVars, prefVars, rpc, wake, boot, spc,
                   sender, bot_session, state, delivered, handlers, debited,
                   callVars, last_fired, fired_today, work_log>>

\* finally: dp.storage.close(), redis_client.close(), dispose_db(),
\* bot.session.close() of main's own Bot
MainFinally ==
    /\ mpc = "finally"
    /\ mpc' = "done"
    /\ bot_session' = "closed"
    /\ UNCHANGED <<now, notifVars, chargeVars, prefVars, rpc, wake, boot, spc,
                   sender, state, delivered, handlers, debited, callVars,
                   last_fired, fired_today, work_log>>

\* asyncio.run(main()) ends: the task of start_scheduler, still pending, is
\* cancelled and with it the five gathered coroutines; start_scheduler logs
\* the CancelledError
MainCancelTasks ==
    /\ mpc = "done"
    /\ spc = "gather"
    /\ spc' = "cancelled"
    /\ dpc' = "cancelled"
    /\ rpc' = [r \in Runners |-> "cancelled"]
    /\ UNCHANGED <<now, running, notifications, due_notifications, outcome,
                   current, attempted, chargeVars, prefVars, wake, boot,
                   sender, appVars, callVars, last_fired, fired_today,
                   work_log>>

MainNext ==
    \/ MainGather
    \/ MainStartScheduler
    \/ MainRunnerStep
    \/ MainInterrupted
    \/ MainFinally
    \/ MainCancelTasks

MainSpec == LifeInit /\ [][MainNext]_vars

\* the dispatch, daily and weekly runners from a Monday 00:00 on, the two
\* time-windowed ones inside their trigger window at first
SiblingNext ==
    \/ StartScheduler
    \/ DispatchCheck
    \/ DispatchPoll
    \/ DispatchPollFail
    \/ DispatchWake
    \/ \E r \in {"daily", "weekly"} : RunnerCheck(r)
    \/ DailyFire
    \/ WeeklyFire
    \/ \E r \in {"daily", "weekly"} : RunnerResume(r)

\* every user has switched the notifications off, so the table of
\* notifications stays empty
SiblingInit ==
    /\ now = 0
    /\ boot = now
    /\ theme_weeks = << >>
    /\ settings = [u \in Users |-> [DefaultSettings EXCEPT !.enabled = FALSE]]
    /\ arg = NoCall
    /\ result = NoCall
    /\ InitState

SiblingSpec == SiblingInit /\ [][SiblingNext]_vars

\* ------------------------------------------------- the trigger predicates
\* a datetime counted in seconds since the epoch of the model (a Monday,
\* 00:00:00): its fields hour, minute and weekday()
SecondsPerDay == SecondsPerMinute * MinutesPerHour * HoursPerDay
Hour(s)    == (s \div (SecondsPerMinute * MinutesPerHour)) % HoursPerDay
Minute(s)  == (s \div SecondsPerMinute) % MinutesPerHour
Weekday(s) == (s \div SecondsPerDay) % DaysPerWeek

\* if now.hour == 0 and now.minute < 5
IsDailyTriggerWindowInclusive(s) == Hour(s) = 0 /\ Minute(s) <= WindowMinutes
IsDailyTriggerWindow(s) == Hour(s) = 0 /\ Minute(s) < WindowMinutes

\* if now.weekday() == 0 and now.hour == 0 and now.minute < 5
IsWeeklyTriggerWindowAnyDay(s) == Hour(s) = 0 /\ Minute(s) < WindowMinutes
IsWeeklyTriggerWindow(s) ==
    Weekday(s) = 0 /\ Hour(s) = 0 /\ Minute(s) < WindowMinutes

\* the timestamps the predicates are evaluated on: every second of a week
\* and of the MaxDay days after it
Stamps == 0..((DaysPerWeek + MaxDay) * SecondsPerDay - 1)

\* the two if conditions evaluated on now = arg
TriggerWindows ==
    /\ result = NoCall
    /\ arg \in Stamps
    /\ result' = [daily |-> IsDailyTriggerWindow(arg),
                  weekly |-> IsWeeklyTriggerWindow(arg)]
    /\ UNCHANGED <<now, notifVars, chargeVars, prefVars, rpc, wake, boot,
                   lifeVars, arg, last_fired, fired_today, work_log>>

WindowInit ==
    /\ now = 0
    /\ boot = now
    /\ theme_weeks = << >>
    /\ settings = [u \in Users |-> NoSettings]
    /\ arg \in Stamps
    /\ result = NoCall
    /\ InitState

WindowNext == TriggerWindows

WindowSpec == WindowInit /\ [][WindowNext]_vars

\* ------------------------------------------------- _format_notification
\* strings are sequences of characters; None is a value of its own
Alphabet == {"a", "b"}
Strings  == UNION {[1..n -> Alphabet] : n \in 0..MaxLen}
NoTitle  == << "None" >>

\* the title used when the notification has none ("Уведомление")
DefaultTitle == << "Notification" >>

\* title = notification.title or "Уведомление";
\* f"<b>{title}</b>\n\n{message}"
FormatNotificationBodyOnly(title, message) ==
    IF title = NoTitle \/ title = << >>
    THEN message
    ELSE << "<b>" >> \o title \o << "</b>", "\n", "\n" >> \o message
FormatNotification(title, message) ==
    << "<b>" >>
    \o (IF title = NoTitle \/ title = << >> THEN DefaultTitle ELSE title)
    \o << "</b>", "\n", "\n" >> \o message

\* _format_notification(notification) on the row arg
FormatCall ==
    /\ result = NoCall
    /\ arg # NoCall
    /\ result' = [text |-> FormatNotification(arg.title, arg.message)]
    /\ UNCHANGED <<now, notifVars, chargeVars, prefVars, rpc, wake, boot,
                   lifeVars, arg, last_fired, fired_today, work_log>>

\* a notification with any title, or none, and any message
FormatInit ==
    /\ now = 0
    /\ boot = now
    /\ theme_weeks = << >>
    /\ settings = [u \in Users |-> NoSettings]
    /\ arg \in [title : Strings \cup {NoTitle}, message : Strings]
    /\ result = NoCall
    /\ InitState

FormatNext == FormatCall

FormatSpec == FormatInit /\ [][FormatNext]_vars

\* ------------------------------------- get_user_settings in two sessions
\* the sessions that read a user's settings: a runner's and a handler's
Readers == {"runner", "handler"}

\* session.add(settings); commit(): user_id is unique, so the INSERT of a
\* second row for the user raises and the table stays as it was
InsertSettingsNoUnique(st, u) ==
    [st EXCEPT ![u] = [GetUserSettings(st, u) EXCEPT !.rows = st[u].rows + 1]]
InsertSettings(st, u) ==
    IF st[u].rows = 0 THEN [st EXCEPT ![u] = DefaultSettings] ELSE st

\* get_user_settings, the SELECT: the row is returned, or none is found and
\* the call goes on to create one
GetSettingsSelect(c, u) ==
    /\ arg[c] = 0
    /\ IF settings[u].exists
       THEN /\ result' = [result EXCEPT ![c] = "found"]
            /\ UNCHANGED arg
       ELSE /\ arg' = [arg EXCEPT ![c] = u]
            /\ result' = [result EXCEPT ![c] = "none"]
    /\ UNCHANGED <<now, notifVars, chargeVars, prefVars, rpc, wake, boot,
                   lifeVars, last_fired, fired_today, work_log>>

\* get_user_settings, the INSERT and its commit
GetSettingsInsert(c) ==
    /\ arg[c] # 0
    /\ settings' = InsertSettings(settings, arg[c])
    /\ result' = [result EXCEPT
                     ![c] = IF settings[arg[c]].rows = 0 THEN "created"
                            ELSE "raised"]
    /\ arg' = [arg EXCEPT ![c] = 0]
    /\ UNCHANGED <<now, notifVars, chargeVars, theme_weeks, rpc, wake, boot,
                   lifeVars, last_fired, fired_today, work_log>>

PrefInit ==
    /\ now = 0
    /\ boot = now
    /\ theme_weeks = << >>
    /\ settings = [u \in Users |-> NoSettings]
    /\ arg = [c \in Readers |-> 0]
    /\ result = [c \in Readers |-> "none"]
    /\ InitState

\* the settings read by two sessions step by step, switched by the user and
\* read by the fan-out of the daily runner
PrefNext ==
    \/ StartScheduler
    \/ \E c \in Readers, u \in Users : GetSettingsSelect(c, u)
    \/ \E c \in Readers : GetSettingsInsert(c)
    \/ \E u \in Users, value \in BOOLEAN :
          UpdateUserSettings(u, "enabled", value)
    \/ RunDailyTasks

PrefSpec == PrefInit /\ [][PrefNext]_vars

\* ======================================================== properties

\* a step of run_notification_sender (or its launch)
DispatchStep ==
    <<dpc, due_notifications, outcome, current>>' #
    <<dpc, due_notifications, outcome, current>>

\* bot.send_message is called for notification i in this step
SenderCalled(i) ==
    \/ dpc = "loop" /\ dpc' = "mark" /\ current' = i
    \/ dpc = "loop" /\ outcome[i] = "none" /\ outcome'[i] = "send_failed"

Unsent(i) == notifications[i].sent = "False"
IsDue(i)  == Unsent(i) /\ notifications[i].scheduled_time <= now

\* C1: every step of a dispatch iteration keeps every row of the store, and
\* changes a row only if it is a due, unsent row of the iteration's batch,
\* and then only to sent = true with sent_at set to the time of the mark;
\* every other row, a row whose send failed included, is left as it was.
C1_DispatchMarksOrLeaves ==
    [][DispatchStep =>
        /\ Len(notifications') = Len(notifications)
        /\ \A i \in DOMAIN notifications :
            \/ notifications'[i] = notifications[i]
            \/ /\ i \in due_notifications
               /\ IsDue(i)
               /\ notifications'[i].sent = "True"
               /\ notifications'[i].sent_at = now
               /\ notifications'[i].sent_at # NoTime
               /\ notifications'[i].scheduled_time =
                      notifications[i].scheduled_time]_vars

\* an iteration has ended with one row marked sent and one row left unsent
C1_Witness ==
    /\ dpc = "sleep"
    /\ \E i, j \in due_notifications :
        /\ outcome[i] = "sent"
        /\ notifications[i].sent = "True"
        /\ notifications[i].sent_at # NoTime
        /\ outcome[j] = "send_failed"
        /\ notifications[j].sent = "False"

\* C2: a notification whose scheduled_time is later than now is in no
\* batch returned by get_due_notifications, and the sender has never been
\* called for it.
C2_NoPrematureDelivery ==
    \A i \in DOMAIN notifications :
        notifications[i].scheduled_time > now =>
            /\ i \notin due_notifications
            /\ i \notin attempted
            /\ current # i

\* a poll has returned a batch while a delayed notification was not yet due
C2_Witness ==
    /\ dpc = "loop"
    /\ \E i \in DOMAIN notifications :
        /\ notifications[i].scheduled_time > now
        /\ i \notin due_notifications

\* C3: once a notification has been marked sent (sent_at is set), no step
\* calls the sender for it again.
C3_NoResendAfterMark ==
    [][\A i \in DOMAIN notifications :
          notifications[i].sent_at # NoTime => ~SenderCalled(i)]_vars

\* a later iteration is working on a batch that leaves out a row sent earlier
C3_Witness ==
    /\ dpc = "loop"
    /\ \E i \in DOMAIN notifications :
        /\ notifications[i].sent = "True"
        /\ i \in attempted
        /\ outcome[i] = "none"
        /\ i \notin due_notifications

\* C4: every notification with sent = true has a sent_at.
C4_SentHasSentAt ==
    \A i \in DOMAIN notifications :
        notifications[i].sent = "True" => notifications[i].sent_at # NoTime

C4_Witness ==
    \E i \in DOMAIN notifications :
        notifications[i].sent = "True" /\ notifications[i].sent_at = now

\* C5: no row is ever removed, and sent / sent_at of a row change only in
\* the dispatch runner's mark step, from sent = false to sent = true.
C5_SentMutatedOnceByDispatcher ==
    [][\A i \in DOMAIN notifications :
          /\ i \in DOMAIN notifications'
          /\ (\/ notifications'[i].sent # notifications[i].sent
              \/ notifications'[i].sent_at # notifications[i].sent_at)
                => /\ dpc = "mark" /\ current = i
                   /\ notifications[i].sent = "False"
                   /\ notifications'[i].sent = "True"]_vars

\* C6: a failed send leaves the store as it was and the runner in its loop,
\* the runner exits only after running was cleared, and every poll that
\* returns selects every due, unsent notification, whatever the number of
\* attempts already made for it.
C6_FailedSendIsRetried ==
    [][/\ \A i \in DOMAIN notifications :
            (outcome[i] = "none" /\ outcome'[i] = "send_failed") =>
                /\ notifications' = notifications
                /\ Unsent(i)
                /\ dpc' = "loop"
       /\ (dpc' = "exited" => ~running)
       /\ DispatchPoll =>
            \A i \in DOMAIN notifications :
                IsDue(i) => i \in due_notifications']_vars

\* a notification whose earlier attempt failed is in the batch again
C6_Witness ==
    /\ dpc = "loop"
    /\ \E i \in due_notifications :
        /\ i \in attempted
        /\ Unsent(i)
        /\ outcome[i] = "none"

C8_EventuallySent ==
    \A i \in NotifIds :
        (IF i \in DOMAIN notifications THEN IsDue(i) ELSE FALSE) ~>
            (IF i \in DOMAIN notifications
             THEN notifications[i].sent = "True" \/ ~running
             ELSE FALSE)

\* a notification was marked sent in a batch in which the send of another
\* notification failed
C8_Witness ==
    /\ running
    /\ \E i, j \in due_notifications :
        /\ i # j
        /\ outcome[i] = "sent"
        /\ notifications[i].sent = "True"
        /\ outcome[j] = "send_failed"

\* the users' charges and the calendar day of their last reset
Proj(us) ==
    [u \in DOMAIN us |-> <<us[u].charges, Day(us[u].last_charge_reset)>>]

\* C9: a bulk reset that follows a bulk reset of the same UTC day, with no
\* write to users in between, changes no user's charges and no user's
\* calendar day of last_charge_reset.
C9_ResetIdempotent ==
    [][(ResetChargesForAll /\ bulkResets >= 1) => Proj(users') = Proj(users)]_vars

\* the second reset ran at a later time of the same day
C9_Witness ==
    /\ bulkResets = 2
    /\ now % MinutesPerDay > 0
    /\ \A u \in Users : users[u].last_charge_reset = now

\* C10: the bulk reset leaves alone every user whose last_charge_reset is
\* already on today's date and who has consumed charges since: it neither
\* restores the charges nor moves last_charge_reset.
C10_ResetNoOpForResetToday ==
    [][ResetChargesForAll =>
          \A u \in Users :
              (/\ Day(users[u].last_charge_reset) = Day(now)
               /\ users[u].charges < MaxCharges) =>
                  users'[u] = users[u]]_vars

\* C11: when _reset_charges_for_all completes without a store error, every
\* user of the table, whatever its state, has charges = 3 and
\* last_charge_reset equal to the time of the reset.
C11_BulkResetRestoresEveryUser ==
    [][(ResetChargesForAll /\ reset_log' = "reset") =>
          \A u \in Users :
              /\ users'[u].charges = MaxCharges
              /\ users'[u].last_charge_reset = now]_vars

\* a reset of a later day, at a later minute, has just restored every user
C11_Witness ==
    /\ reset_log = "reset"
    /\ bulkResets = 1
    /\ Day(now) >= 1
    /\ now % MinutesPerDay > 0
    /\ \A u \in Users :
        users[u] = [charges |-> MaxCharges, last_charge_reset |-> now]

\* C12: whatever the interleaving of consumptions (in one step or split into
\* load and flush), lazy resets, bulk resets and admin resets, every user's
\* charges are in 0..3.
C12_ChargesInRange ==
    \A u \in Users :
        /\ users[u].charges >= 0
        /\ users[u].charges <= MaxCharges

\* a handler in flight still holds a positive count for a user whose row
\* other consumptions have brought to 0 since it was loaded
C12_Witness ==
    /\ loaded.user # 0
    /\ loaded.charges > 0
    /\ users[loaded.user].charges = 0
    /\ Day(loaded.last_charge_reset) = Day(now)

\* C13: the unit-of-work of the daily runner runs at most once per UTC day.
C13_DailyAtMostOncePerDay ==
    fired_today["daily"] <= 1

\* C14: while the scheduler runs, the clock of the daily runner does not pass
\* the 00:00-00:05 window of a day the process was up for without the
\* unit-of-work having run on that day.
C14_DailyFiresInEveryWindow ==
    (/\ running
     /\ rpc["daily"] \in {"check", "fire", "sleep"}
     /\ now % MinutesPerDay >= WindowMinutes
     /\ boot < Day(now) * MinutesPerDay + WindowMinutes) =>
        /\ last_fired["daily"] # NoTime
        /\ Day(last_fired["daily"]) = Day(now)

\* the runner was started before midnight, has fired in the window of the
\* next day and is past that window
C14_Witness ==
    /\ running
    /\ rpc["daily"] = "check"
    /\ Day(now) >= 1
    /\ now % MinutesPerDay >= WindowMinutes
    /\ boot < Day(now) * MinutesPerDay
    /\ Day(last_fired["daily"]) = Day(now)

\* C15: while the scheduler runs, the clock of the weekly runner does not
\* pass the Monday 00:00-00:05 window the process was up for without the
\* unit-of-work having run exactly once in it.
C15_WeeklyFiresOnceEveryMonday ==
    (/\ running
     /\ rpc["weekly"] \in {"check", "fire", "sleep"}
     /\ Day(now) % DaysPerWeek = 0
     /\ now % MinutesPerDay >= WindowMinutes
     /\ boot < Day(now) * MinutesPerDay) =>
        /\ last_fired["weekly"] # NoTime
        /\ Day(last_fired["weekly"]) = Day(now)
        /\ fired_today["weekly"] = 1

\* the rows a step has added to the notification table
Added == (Len(notifications) + 1)..Len(notifications')

\* C19: a firing of the weekly runner never calls the sender and leaves the
\* rows of the store as they are; it only adds weekly_stats rows, unsent
\* and not yet due, for users whose enabled and weekly_stats flags are set.
C19_WeeklyOnlyEnqueues ==
    [][WeeklyFire =>
        /\ attempted' = attempted
        /\ Len(notifications') >= Len(notifications)
        /\ \A i \in DOMAIN notifications : notifications'[i] = notifications[i]
        /\ \A i \in Added :
            /\ notifications'[i].notification_type = "weekly_stats"
            /\ notifications'[i].sent = "False"
            /\ notifications'[i].sent_at = NoTime
            /\ notifications'[i].scheduled_time > now
            /\ GetUserSettings(settings, notifications'[i].user_id).enabled
            /\ GetUserSettings(settings,
                               notifications'[i].user_id).weekly_stats]_vars

\* a firing has enqueued a digest for one user and none for a user who had
\* switched weekly_stats off
C19_Witness ==
    /\ work_log.kind = "weekly"
    /\ \E u, v \in Users :
        /\ ~settings[v].weekly_stats
        /\ v \notin work_log.raised
        /\ \A i \in DOMAIN notifications : notifications[i].user_id # v
        /\ \E i \in DOMAIN notifications :
            /\ notifications[i].user_id = u
            /\ notifications[i].notification_type = "weekly_stats"
            /\ notifications[i].scheduled_time > now

\* the rows a step has added for user u
AddedFor(u) == {i \in Added : notifications'[i].user_id = u}

\* C16: a firing of the campaign-switch runner enqueues no campaign-start
\* notification for a user who already has one for the same theme week from
\* an earlier day.
C16_CampaignAnnouncedOnce ==
    [][RunThemeWeekSwitch =>
        \A i \in Added : \A j \in DOMAIN notifications :
            ~ /\ notifications[j].user_id = notifications'[i].user_id
              /\ notifications[j].notification_type = "theme_week_start"
              /\ notifications'[i].notification_type = "theme_week_start"
              /\ notifications[j].title = notifications'[i].title
              /\ Day(notifications[j].scheduled_time) < Day(now)]_vars

\* C17: one iteration of the campaign-switch runner announces at most one
\* theme week, an active one with the latest start_date, and enqueues at
\* most one notification per user.
C17_OneCampaignPerIteration ==
    [][RunThemeWeekSwitch =>
        /\ \A i, j \in Added : notifications'[i].title = notifications'[j].title
        /\ \A i \in Added :
            /\ notifications'[i].title \in ActiveWeeks(theme_weeks, now)
            /\ \A w \in ActiveWeeks(theme_weeks, now) :
                theme_weeks[w].start_date <=
                    theme_weeks[notifications'[i].title].start_date
        /\ \A u \in Users : Cardinality(AddedFor(u)) <= 1]_vars

\* the runner has just run while two active theme weeks contained now
C17_Witness ==
    /\ work_log.kind = "theme"
    /\ last_fired["theme"] = now
    /\ Cardinality(ActiveWeeks(theme_weeks, now)) >= 2

C18_ReminderWhateverTheCharges ==
    [][RunDailyTasks =>
        \A u \in Users :
            (/\ GetUserSettings(settings, u).enabled
             /\ GetUserSettings(settings, u).daily_reminders
             /\ u \notin work_log'.raised
             /\ Day(users[u].last_charge_reset) < Day(now)) =>
                \E i \in AddedFor(u) :
                    notifications'[i].notification_type = "daily_reminder"]_vars

\* no row of theme_weeks is active and covers the current time
NoCampaignNow ==
    \A i \in DOMAIN theme_weeks :
        ~(/\ theme_weeks[i].active
          /\ theme_weeks[i].start_date <= now
          /\ theme_weeks[i].end_date >= now)

\* C21: a firing of the campaign-switch runner that finds no active campaign
\* adds no notification and no settings row, logs no failure, raises nothing
\* of its own (only a failing session can take it to the except handler) and
\* stays in its loop, asleep for the debounce sleep or, after a session
\* failure, for the error sleep.
C21_NoCampaignIsANoOp ==
    [][(RunThemeWeekSwitch /\ NoCampaignNow) =>
        /\ notifications' = notifications
        /\ settings' = settings
        /\ theme_weeks' = theme_weeks
        /\ work_log' = [kind |-> "theme", raised |-> {}, week |-> 0]
        /\ ~ThemeEscapes(FALSE)
        /\ running' /\ rpc'["theme"] = "check"
        /\ wake'["theme"] \in {now + DebounceSleep, now + ErrorSleep("theme")}
      ]_vars

\* the runner has just fired with no campaign active and is in its debounce
\* sleep
C21_Witness ==
    /\ NoCampaignNow
    /\ work_log.kind = "theme"
    /\ last_fired["theme"] = now
    /\ wake["theme"] = now + DebounceSleep
    /\ notifications = << >>

\* C22: once stop() has been called, no runner starts a new unit-of-work:
\* no time-windowed or cleanup runner enters its work and the dispatch
\* runner starts no new poll.
C22_NoNewWorkAfterStop ==
    [][~running =>
        /\ \A r \in Runners : rpc'[r] = "fire" => rpc[r] = "fire"
        /\ dpc' = "poll" => dpc = "poll"]_vars

\* C23: a call of stop() on a scheduler that is already stopped (running is
\* false and the Bot session is closed) changes nothing at all.
C23_SecondStopIsANoOp ==
    [][(StopScheduler /\ ~running /\ sender = "closed") =>
        UNCHANGED vars]_vars

\* a started scheduler after stop(): the state every further stop() acts on
\* and leaves
C23_Witness ==
    /\ spc = "gather"
    /\ ~running
    /\ sender = "closed"

\* C24: start_scheduler sets running and puts all five runners at the top of
\* their loops; it has returned only when all five have exited; and once the
\* scheduler is started and stopped it eventually returns.
C24_StartReturnsAfterEveryRunner ==
    /\ [][StartScheduler =>
            /\ running' /\ spc' = "gather"
            /\ dpc' = "check"
            /\ \A r \in Runners : rpc'[r] = "check"]_vars
    /\ [](spc = "returned" =>
            /\ dpc = "exited"
            /\ \A r \in Runners : rpc[r] = "exited")
    /\ (spc = "gather" /\ ~running) ~> (spc = "returned")

\* start_scheduler has returned from a scheduler that was stopped while the
\* cleanup runner was at work
C24_Witness ==
    /\ spc = "returned"
    /\ ~running
    /\ last_fired["cleanup"] # NoTime

\* C25: no runner leaves its loop while the scheduler is running, and a
\* firing of the weekly runner, failed or not, ends in its sleep and leaves
\* the running flag and the position and the sleep of the daily and the
\* dispatch runner as they were.
C25_FailureStaysInItsRunner ==
    [][/\ \A r \in Runners :
            (rpc'[r] = "exited" /\ rpc[r] # "exited") => ~running
       /\ (dpc' = "exited" /\ dpc # "exited") => ~running
       /\ WeeklyFire =>
            /\ running' = running
            /\ rpc'["weekly"] = "sleep"
            /\ rpc'["daily"] = rpc["daily"]
            /\ wake'["daily"] = wake["daily"]
            /\ dpc' = dpc]_vars

\* the unit-of-work of the weekly runner has ended in the except handler
\* (its sleep is the error sleep), every user's digest had failed, and the
\* daily runner has run its unit-of-work after that
C25_Witness ==
    /\ running
    /\ last_fired["weekly"] # NoTime
    /\ wake["weekly"] = last_fired["weekly"] + ErrorSleep("weekly")
    /\ rpc["weekly"] = "sleep"
    /\ work_log.kind = "daily"
    /\ reset_log = "reset"
    /\ dpc \in {"poll", "loop", "mark", "sleep"}

\* C26: when the clock of the daily runner has left the window of a day on
\* which it fired and the last bulk reset of that day failed with a store
\* error, the runner has fired again after the failure: a failed reset is
\* attempted again on the same day.
C26_FailedResetIsRetried ==
    (/\ running
     /\ rpc["daily"] \in {"check", "sleep"}
     /\ now % MinutesPerDay >= WindowMinutes
     /\ last_fired["daily"] # NoTime
     /\ Day(last_fired["daily"]) = Day(now)
     /\ reset_log = "error") =>
        fired_today["daily"] >= 2

\* C27: the daily trigger predicate is true exactly on the timestamps whose
\* seconds since midnight are below 300: true at 00:00:00 and 00:04:59,
\* false at 00:05:00 and 23:59:59.
C27_DailyWindowIsFirstFiveMinutes ==
    result # NoCall =>
        /\ result.daily <=>
              arg % SecondsPerDay < WindowMinutes * SecondsPerMinute
        /\ arg % SecondsPerDay = 0 => result.daily
        /\ arg % SecondsPerDay = 299 => result.daily
        /\ arg % SecondsPerDay = 300 => ~result.daily
        /\ arg % SecondsPerDay = SecondsPerDay - 1 => ~result.daily

\* the predicate has been evaluated at 00:04:59 of the second day
C27_Witness ==
    /\ result # NoCall
    /\ arg = SecondsPerDay + 299
    /\ result.daily

\* C28: the weekly trigger predicate is the daily one gated on Monday: it is
\* true exactly on the timestamps of a Monday whose seconds since midnight
\* are below 300, so never from Tuesday to Sunday.
C28_WeeklyWindowIsMondayOnly ==
    result # NoCall =>
        /\ result.weekly <=>
              arg % (DaysPerWeek * SecondsPerDay)
                  < WindowMinutes * SecondsPerMinute
        /\ result.weekly <=>
              (result.daily /\ (arg \div SecondsPerDay) % DaysPerWeek = 0)
        /\ (arg \div SecondsPerDay) % DaysPerWeek # 0 => ~result.weekly

\* the predicate has been evaluated at 00:04:59 of the second Monday
C28_Witness ==
    /\ result # NoCall
    /\ arg = DaysPerWeek * SecondsPerDay + 299
    /\ result.weekly

\* the rendering with the title in bold, a blank line and the body
Rendered(title, message) ==
    << "<b>" >> \o title \o << "</b>", "\n", "\n" >> \o message

\* C29 as stated: the text is the bolded title, a blank line and the body
\* when the notification has a title, and the body alone when it has none.
C29_BodyOnlyWithoutTitle ==
    result # NoCall =>
        result.text = IF arg.title = NoTitle THEN arg.message
                      ELSE Rendered(arg.title, arg.message)

\* C29: the text is the bolded title, a blank line and the body; when the
\* title is None or empty, the default title takes its place, so that the
\* body is never sent alone.
C29_DefaultTitleWithoutTitle ==
    result # NoCall =>
        /\ result.text =
              IF arg.title = NoTitle \/ arg.title = << >>
              THEN Rendered(DefaultTitle, arg.message)
              ELSE Rendered(arg.title, arg.message)
        /\ result.text # arg.message

\* a notification without a title has been rendered
C29_Witness ==
    /\ result # NoCall
    /\ arg.title = NoTitle
    /\ Len(arg.message) = MaxLen
    /\ result.text = Rendered(DefaultTitle, arg.message)

\* C30: a user has at most one settings row; a step changes a user's row
\* only by creating it, with all five flags set, or by update_user_settings;
\* so a firing of the daily runner creates the missing rows it reads and
\* leaves every existing row as it is.
C30_SettingsCreatedOnceWithDefaults ==
    /\ [](\A u \in Users :
            /\ settings[u].rows <= 1
            /\ settings[u].exists <=> settings[u].rows = 1)
    /\ [][\A u \in Users :
            settings'[u] # settings[u] =>
                \/ /\ ~settings[u].exists
                   /\ settings'[u].exists /\ settings'[u].rows = 1
                   /\ settings'[u].enabled
                   /\ settings'[u].daily_reminders
                   /\ settings'[u].weekly_stats
                   /\ settings'[u].mission_notifications
                   /\ settings'[u].pair_notifications
                \/ /\ \E value \in BOOLEAN :
                          UpdateUserSettings(u, "enabled", value)
                   /\ settings'[u].rows = 1]_vars
    /\ [][RunDailyTasks =>
            \A u \in Users : settings[u].exists => settings'[u] = settings[u]
         ]_vars

\* two sessions have read the settings of the same user before there was a
\* row: one has created it, the other's INSERT was refused; the user has
\* since switched the notifications off and the daily runner has fired
C30_Witness ==
    /\ result["runner"] = "created"
    /\ result["handler"] = "raised"
    /\ work_log.kind = "daily"
    /\ \E u \in Users : settings[u].rows = 1 /\ ~settings[u].enabled


\* C31: on every shutdown path of main() the scheduler's stop() has been
\* invoked: once main is done the running flag is cleared and the scheduler's
\* own sender session is released
C31_StopCalledOnEveryShutdownPath ==
    mpc = "done" => (~running /\ sender = "closed")


\* C32: a notification the sender succeeded for, whose mark-as-sent did not
\* commit (the write failed or the process died first), is still sent = false
\* and is in the batch of the next successful poll, so that it is sent again;
\* no row is ever sent = true without the chat having received it.
C32_AtLeastOnceDelivery ==
    /\ [](\A i \in DOMAIN notifications :
            notifications[i].sent = "True" => delivered[i] >= 1)
    /\ [][/\ (dpc = "mark" /\ dpc' # "mark" /\ outcome'[current] # "sent")
             => notifications'[current].sent = "False"
          /\ (dpc = "poll" /\ dpc' = "loop")
             => \A i \in DOMAIN notifications :
                  (delivered[i] >= 1 /\ IsDue(i)) => i \in due_notifications'
         ]_vars

\* the chat has received the same notification twice, the second time after
\* a mark-as-sent that did not commit
C32_Witness ==
    \E i \in DOMAIN notifications :
        /\ delivered[i] = 2
        /\ dpc = "mark"
        /\ current = i
        /\ notifications[i].sent = "False"


\* C33: a handler's consumption and the bulk reset race for the same row and
\* the later commit stands: a bulk reset that commits leaves every user with
\* 3 charges, whatever was consumed before it; a handler's consumption that
\* commits leaves the count the handler computed from the row it had loaded,
\* whatever was reset since; charges stays within 0..3 throughout.
C33_LastCommitWins ==
    /\ [](\A u \in Users : users[u].charges \in 0..MaxCharges)
    /\ [][/\ bulkResets' > bulkResets
             => \A u \in Users :
                  users'[u] = [charges |-> MaxCharges,
                               last_charge_reset |-> now]
          /\ (loaded.user # 0 /\ loaded'.user = 0 /\ result'.ok)
             => users'[loaded.user].charges =
                  (IF Day(now) # Day(loaded.last_charge_reset)
                   THEN MaxCharges ELSE loaded.charges) - 1
         ]_vars

\* a handler was told that it consumed a charge, and a bulk reset of the same
\* day, the last write to the table, has put the user back to 3 charges
C33_Witness ==
    /\ result # NoCall
    /\ result.ok
    /\ Day(result.at) = Day(now)
    /\ loaded = NoHandler
    /\ bulkResets >= 1
    /\ users[result.user].charges = MaxCharges


\* C34: a dispatch iteration commits once, after the whole batch: the only
\* step of the dispatch loop at which the committed store changes is the
\* commit at the end of the for loop, never the processing of one
\* notification.
C34_OneCommitPerIteration ==
    [][(DispatchStep /\ notifications' # notifications)
        => (dpc = "loop" /\ Pending = {} /\ dpc' = "sleep")]_vars


\* C35: check_and_reset_charges leaves a user whose last_charge_reset is of
\* today as it is; a user whose last_charge_reset is of another day, or is
\* null, gets 3 charges and last_charge_reset = now and is otherwise kept;
\* after the call last_charge_reset is of today, so that a second call the
\* same day changes nothing, and from then on no call raises the user's
\* charges for the rest of the day.
C35_LazyResetOncePerDay ==
    /\ [](result # NoCall /\ result.call = "check_and_reset_charges" =>
            LET b == result.before
                t == result.at
                today == /\ b.last_charge_reset # NoTime
                         /\ b.last_charge_reset \div MinutesPerDay
                              = t \div MinutesPerDay
            IN  /\ today => arg = b
                /\ ~today => arg = [b EXCEPT !.charges = MaxCharges,
                                             !.last_charge_reset = t]
                /\ arg.last_charge_reset # NoTime
                /\ arg.last_charge_reset \div MinutesPerDay
                     = t \div MinutesPerDay)
    /\ [][(/\ now' \div MinutesPerDay = now \div MinutesPerDay
           /\ arg.last_charge_reset # NoTime
           /\ arg.last_charge_reset \div MinutesPerDay
                = now \div MinutesPerDay)
          => arg'.charges <= arg.charges]_vars

\* the lazy reset was called on a user reset earlier today who has consumed
\* since, and left the user's charges consumed
C35_Witness ==
    /\ result # NoCall
    /\ result.call = "check_and_reset_charges"
    /\ result.before.last_charge_reset # NoTime
    /\ Day(result.before.last_charge_reset) = Day(result.at)
    /\ result.before.last_charge_reset < result.at
    /\ result.before.charges < MaxCharges
    /\ arg.charges = result.before.charges

\* C36: consume_charge applies the lazy reset first; on the resulting state
\* it returns true and takes exactly one charge when charges > 0, and returns
\* false leaving charges at 0 when charges = 0; last_charge_reset is what
\* the lazy reset left, points and level are never changed.
C36_ConsumeTakesOneOrNone ==
    (result # NoCall /\ result.call = "consume_charge") =>
        LET b == result.before
            t == result.at
            today == /\ b.last_charge_reset # NoTime
                     /\ b.last_charge_reset \div MinutesPerDay
                          = t \div MinutesPerDay
            c == IF today THEN b.charges ELSE MaxCharges
        IN  /\ c > 0 => (result.ok /\ arg.charges = c - 1)
            /\ c = 0 => (~result.ok /\ arg.charges = 0)
            /\ arg.last_charge_reset = IF today THEN b.last_charge_reset ELSE t
            /\ arg.points = b.points
            /\ arg.level = b.level

\* consume_charge was called on a user with no charge left today: it
\* returned false and the user still has none
C36_Witness ==
    /\ result # NoCall
    /\ result.call = "consume_charge"
    /\ ~result.ok
    /\ Day(result.before.last_charge_reset) = Day(result.at)
    /\ result.before.charges = 0
    /\ arg.charges = 0
    /\ arg.points = PointsPerLevel


\* C37: the dispatch runner never looks at the recipient's preferences: the
\* batch of a poll is every unsent row that is due, whatever the recipient's
\* enabled flag is by then, and a row leaves the pending part of the batch
\* only by a call of the sender for it, never by being skipped.
C37_DispatchIgnoresPreferences ==
    [][/\ (dpc = "poll" /\ dpc' # "poll")
          => due_notifications' =
               {i \in DOMAIN notifications :
                    /\ notifications[i].sent = "False"
                    /\ notifications[i].scheduled_time <= now}
       /\ \A i \in NotifIds :
            (dpc = "loop" /\ i \in Pending /\ outcome'[i] # "none")
            => outcome'[i] = "send_failed"
       /\ \A i \in NotifIds :
            (dpc = "mark" /\ outcome'[i] = "sent") => delivered[i] >= 1
      ]_vars

\* a notification enqueued when its recipient enabled notifications has
\* reached the chat while the recipient has them disabled
C37_Witness ==
    \E i \in DOMAIN notifications :
        /\ ~settings[notifications[i].user_id].enabled
        /\ dpc = "mark"
        /\ current = i
        /\ delivered[i] = 1


C39_ChargeConsumedOncePerMission ==
    debited <= 1

====
